---- MODULE Spec2Model ----
(***************************************************************************)
(* A model of worker.js: a Cloudflare Worker that serves a navigation page *)
(* and an admin panel over four keys of the KV namespace NAVIGATION_STORE. *)
(*                                                                         *)
(* JavaScript strings are sequences of one-character strings; the values   *)
(* null and undefined are the one-element sequences Null and Undefined,    *)
(* whose element is no character.  A JSON text is a sequence of lexical    *)
(* tokens (brackets, braces, colon, comma, quoted string literals).        *)
(***************************************************************************)
EXTENDS Naturals, Sequences, FiniteSets, TLC

VARIABLES
  kv,        \* NAVIGATION_STORE: key -> stored string, or Null when the key is absent
  last,      \* the request handled last: what it carried, what the handler read, the response
  issued,    \* the token the last successful login issued, Null before the first
  home,      \* the home page in a browser: how its load of /data went, what it shows
  admin,     \* the admin page in a browser: the categories and sites of its script,
             \* the options of its category select
  inflight   \* the requests being handled step by step: request -> position and body

vars == <<kv, last, issued, home, admin, inflight>>

---------------------------------------------------------------------------
(* Bounds of the model *)

\* longest category list and longest site list a request body carries
MaxLen == 2

---------------------------------------------------------------------------
(* JavaScript values *)

Null == <<"<null>">>
Undefined == <<"<undefined>">>

IsString(v) == v # Null /\ v # Undefined

\* JavaScript truthiness of a string, null or undefined
Truthy(v) == IsString(v) /\ v # <<>>

\* String(v): what a string-typed parameter makes of null and undefined
JSString(v) ==
  IF v = Null THEN <<"n", "u", "l", "l">>
  ELSE IF v = Undefined THEN <<"u", "n", "d", "e", "f", "i", "n", "e", "d">>
  ELSE v

---------------------------------------------------------------------------
(* The KV namespace *)

Keys == {"admin_password", "admin_session", "categories", "sites"}

KVGet(store, key) == store[key]

\* put(key, value): a value that is no string is stored as its string
\* conversion, when the call does not throw (every KV call may throw, see the
\* handlers' fail parameter)
KVPut(store, key, value) == [store EXCEPT ![key] = JSString(value)]

\* a delete that leaves an empty value under the key
KVDeleteEmpties(store, key) == [store EXCEPT ![key] = <<>>]

KVDelete(store, key) == [store EXCEPT ![key] = Null]

---------------------------------------------------------------------------
(* Strings *)

RECURSIVE SplitFrom(_, _, _, _)
\* s.split(sep), from position i on, cur being the piece read so far
SplitFrom(s, sep, i, cur) ==
  IF i > Len(s) THEN <<cur>>
  ELSE IF s[i] = sep THEN <<cur>> \o SplitFrom(s, sep, i + 1, <<>>)
  ELSE SplitFrom(s, sep, i + 1, Append(cur, s[i]))

Split(s, sep) == SplitFrom(s, sep, 1, <<>>)

RECURSIVE TrimStart(_)
TrimStart(s) == IF s # <<>> /\ Head(s) = " " THEN TrimStart(Tail(s)) ELSE s

RECURSIVE TrimEnd(_)
TrimEnd(s) ==
  IF s # <<>> /\ s[Len(s)] = " " THEN TrimEnd(SubSeq(s, 1, Len(s) - 1)) ELSE s

Trim(s) == TrimEnd(TrimStart(s))

StartsWith(s, prefix) ==
  Len(s) >= Len(prefix) /\ SubSeq(s, 1, Len(prefix)) = prefix

---------------------------------------------------------------------------
(* Navigation data and JSON *)

\* Category names.  The server never looks inside a data string, so the
\* strings of the navigation data are atoms.
Names == {"A", "B"}

\* Site entries: {name, url, category, icon}
SiteSet ==
  { [name |-> "g", url |-> "u", category |-> "A", icon |-> ""],
    [name |-> "h", url |-> "u", category |-> "B", icon |-> "i"] }

SeqsUpTo(S, n) == UNION { [1..k -> S] : k \in 0..n }

CategoryLists == SeqsUpTo(Names, MaxLen)
SiteLists == SeqsUpTo(SiteSet, MaxLen)

\* the strings that occur in navigation data, member names included
DataStrings ==
  {"A", "B", "g", "h", "u", "", "i", "name", "url", "category", "icon", "http://u", "globe"}

\* the JSON string literal of a data string
StringLiteral(s) ==
  CASE s = "A" -> "\"A\""
    [] s = "B" -> "\"B\""
    [] s = "g" -> "\"g\""
    [] s = "h" -> "\"h\""
    [] s = "u" -> "\"u\""
    [] s = "" -> "\"\""
    [] s = "i" -> "\"i\""
    [] s = "name" -> "\"name\""
    [] s = "url" -> "\"url\""
    [] s = "category" -> "\"category\""
    [] s = "icon" -> "\"icon\""
    [] s = "http://u" -> "\"http://u\""
    [] s = "globe" -> "\"globe\""

IsLiteral(tok) == \E s \in DataStrings : StringLiteral(s) = tok
Unquote(tok) == CHOOSE s \in DataStrings : StringLiteral(s) = tok

RECURSIVE StringifyElements(_)
\* the texts of an array's elements, comma-separated
StringifyElements(texts) ==
  IF texts = <<>> THEN <<>>
  ELSE IF Len(texts) = 1 THEN texts[1]
  ELSE texts[1] \o <<",">> \o StringifyElements(Tail(texts))

StringifyArray(texts) == <<"[">> \o StringifyElements(texts) \o <<"]">>

StringifySite(site) ==
  << "{", StringLiteral("name"), ":", StringLiteral(site.name), ",",
     StringLiteral("url"), ":", StringLiteral(site.url), ",",
     StringLiteral("category"), ":", StringLiteral(site.category), ",",
     StringLiteral("icon"), ":", StringLiteral(site.icon), "}" >>

\* A member of a request's JSON body: absent, or present with a value
Missing == [defined |-> FALSE]
Present(v) == [defined |-> TRUE, val |-> v]

\* a stringify that writes the elements last to first
JSONStringifyCategoriesReversed(field) ==
  IF ~field.defined THEN Undefined
  ELSE StringifyArray([i \in 1..Len(field.val) |->
                         <<StringLiteral(field.val[Len(field.val) + 1 - i])>>])

\* JSON.stringify(categories): undefined for an undefined argument
JSONStringifyCategories(field) ==
  IF ~field.defined THEN Undefined
  ELSE StringifyArray([i \in 1..Len(field.val) |-> <<StringLiteral(field.val[i])>>])

\* JSON.stringify(sites)
JSONStringifySites(field) ==
  IF ~field.defined THEN Undefined
  ELSE StringifyArray([i \in 1..Len(field.val) |-> StringifySite(field.val[i])])

ParseFailure == [ok |-> FALSE]

RECURSIVE ParseValue(_, _)
RECURSIVE ParseElements(_, _, _)
RECURSIVE ParseMembers(_, _, _)

\* JSON.parse, one value from token i on: [ok, val, next]
ParseValue(t, i) ==
  IF i > Len(t) THEN ParseFailure
  ELSE IF IsLiteral(t[i]) THEN [ok |-> TRUE, val |-> Unquote(t[i]), next |-> i + 1]
  ELSE IF t[i] = "[" THEN
    IF i + 1 <= Len(t) /\ t[i + 1] = "]"
    THEN [ok |-> TRUE, val |-> <<>>, next |-> i + 2]
    ELSE ParseElements(t, i + 1, <<>>)
  ELSE IF t[i] = "{" THEN
    IF i + 1 <= Len(t) /\ t[i + 1] = "}"
    THEN [ok |-> TRUE, val |-> <<>>, next |-> i + 2]
    ELSE ParseMembers(t, i + 1, <<>>)
  ELSE ParseFailure

ParseElements(t, i, acc) ==
  LET v == ParseValue(t, i) IN
  IF ~v.ok \/ v.next > Len(t) THEN ParseFailure
  ELSE IF t[v.next] = "," THEN ParseElements(t, v.next + 1, Append(acc, v.val))
  ELSE IF t[v.next] = "]"
    THEN [ok |-> TRUE, val |-> Append(acc, v.val), next |-> v.next + 1]
  ELSE ParseFailure

ParseMembers(t, i, acc) ==
  IF i + 2 > Len(t) \/ ~IsLiteral(t[i]) \/ t[i + 1] # ":" THEN ParseFailure
  ELSE
    LET v == ParseValue(t, i + 2) IN
    IF ~v.ok \/ v.next > Len(t) THEN ParseFailure
    ELSE
      LET obj == (Unquote(t[i]) :> v.val) @@ acc IN
      IF t[v.next] = "," THEN ParseMembers(t, v.next + 1, obj)
      ELSE IF t[v.next] = "}"
        THEN [ok |-> TRUE, val |-> obj, next |-> v.next + 1]
      ELSE ParseFailure

\* JSON.parse(text): [ok |-> FALSE] stands for the SyntaxError it throws
JSONParse(text) ==
  LET r == ParseValue(text, 1) IN
  IF r.ok /\ r.next = Len(text) + 1 THEN [ok |-> TRUE, val |-> r.val]
  ELSE ParseFailure

---------------------------------------------------------------------------
(* Responses *)

\* A response is [status, body, headers]; new Response(...) without a status
\* answers 200.

\* an exception no handler catches: the runtime answers with its error page
Uncaught == [status |-> 500, body |-> [exception |-> TRUE], headers |-> <<>>]

JSONHeaders == ("Content-Type" :> "application/json")

HTMLHeaders == ("Content-Type" :> "text/html; charset=UTF-8")

SessionName == <<"a", "d", "m", "i", "n", "_", "s", "e", "s", "s", "i", "o", "n">>

\* 'admin_session='
SessionPrefix == SessionName \o <<"=">>

\* `admin_session=${token}; Max-Age=3600; Path=/; HttpOnly`
SessionCookie(token) ==
  [name |-> SessionName, value |-> token, attributes |-> "Max-Age=3600; Path=/; HttpOnly"]

\* 'admin_session=; Max-Age=0; Path=/; HttpOnly'
ClearedCookie ==
  [name |-> SessionName, value |-> <<>>, attributes |-> "Max-Age=0; Path=/; HttpOnly"]

---------------------------------------------------------------------------
(* Session Checker *)

\* generateToken(): Math.random and Date.now in base 36; the model draws the
\* token from Tokens, a repeated token included
Tokens == { <<"t", "1">>, <<"t", "2">> }

\* cookies.find(c => c.startsWith('admin_session=')): the first such cookie
FindSessionCookie(cookies) ==
  LET hits == { i \in 1..Len(cookies) : StartsWith(cookies[i], SessionPrefix) } IN
  IF hits = {} THEN Undefined
  ELSE cookies[CHOOSE i \in hits : \A j \in hits : i <= j]

\* sessionCookie.split('=')[1]
CookieToken(sessionCookie) == Split(sessionCookie, "=")[2]

NotAuthenticated == [isAuthenticated |-> FALSE, token |-> Undefined, threw |-> FALSE]

\* checkSession(request); fail = 1 when the KV read throws
CheckSession(store, cookieHeader, fail) ==
  IF ~Truthy(cookieHeader) THEN NotAuthenticated
  ELSE
    LET parts == Split(cookieHeader, ";")
        cookies == [i \in 1..Len(parts) |-> Trim(parts[i])]
        sessionCookie == FindSessionCookie(cookies)
    IN
    IF sessionCookie = Undefined THEN NotAuthenticated
    ELSE
      LET token == CookieToken(sessionCookie) IN
      IF ~Truthy(token) THEN NotAuthenticated
      ELSE IF fail = 1 THEN [NotAuthenticated EXCEPT !.threw = TRUE]
      ELSE IF KVGet(store, "admin_session") = token
        THEN [isAuthenticated |-> TRUE, token |-> token, threw |-> FALSE]
      ELSE NotAuthenticated

---------------------------------------------------------------------------
(* Data Handler *)

\* the catch branch of handleGetData
GetDataFallback ==
  [status |-> 200,
   body |-> [categories |-> <<>>, sites |-> <<>>],
   headers |-> JSONHeaders]

\* a response that falls back key by key: an unreadable text empties its own
\* collection only
GetDataResponsePerKey(categories, sites) ==
  LET c == IF Truthy(categories) THEN JSONParse(categories) ELSE [ok |-> TRUE, val |-> <<>>]
      s == IF Truthy(sites) THEN JSONParse(sites) ELSE [ok |-> TRUE, val |-> <<>>]
  IN
  [status |-> 200,
   body |-> [categories |-> IF c.ok THEN c.val ELSE <<>>,
             sites |-> IF s.ok THEN s.val ELSE <<>>],
   headers |-> JSONHeaders @@ ("Cache-Control" :> "no-cache")]

\* the response built from the two values read; a SyntaxError of either
\* JSON.parse lands in the catch branch
GetDataResponse(categories, sites) ==
  LET c == IF Truthy(categories) THEN JSONParse(categories) ELSE [ok |-> TRUE, val |-> <<>>]
      s == IF Truthy(sites) THEN JSONParse(sites) ELSE [ok |-> TRUE, val |-> <<>>]
  IN
  IF c.ok /\ s.ok
  THEN [status |-> 200,
        body |-> [categories |-> c.val, sites |-> s.val],
        headers |-> JSONHeaders @@ ("Cache-Control" :> "no-cache")]
  ELSE GetDataFallback

\* What a handler does with a request is [store, resp, threw]: the store it
\* leaves, its response, and whether the KV call that fail names was reached
\* and threw.  fail = 0: no KV call throws; fail = k: the k-th call throws.

\* a read that stores the empty list under an absent key
HandleGetDataInitialises(store, fail) ==
  IF fail \in {1, 2} THEN [store |-> store, resp |-> GetDataFallback, threw |-> TRUE]
  ELSE [store |-> IF KVGet(store, "categories") = Null
                  THEN KVPut(store, "categories", JSONStringifyCategories(Present(<<>>)))
                  ELSE store,
        resp |-> GetDataResponse(KVGet(store, "categories"), KVGet(store, "sites")),
        threw |-> FALSE]

\* handleGetData(request)
HandleGetData(store, fail) ==
  IF fail \in {1, 2} THEN [store |-> store, resp |-> GetDataFallback, threw |-> TRUE]
  ELSE [store |-> store,
        resp |-> GetDataResponse(KVGet(store, "categories"), KVGet(store, "sites")),
        threw |-> FALSE]

\* a save that puts the sites before the categories
HandleSaveDataSitesFirst(store, body, fail) ==
  IF ~body.ok THEN [store |-> store, resp |-> [status |-> 200,
                      body |-> [success |-> FALSE, message |-> "save failed"],
                      headers |-> JSONHeaders], threw |-> FALSE]
  ELSE IF fail = 1 THEN [store |-> store, resp |-> [status |-> 200,
                      body |-> [success |-> FALSE, message |-> "save failed"],
                      headers |-> JSONHeaders], threw |-> TRUE]
  ELSE
    LET s1 == KVPut(store, "sites", JSONStringifySites(body.sites)) IN
    IF fail = 2 THEN [store |-> s1, resp |-> [status |-> 200,
                      body |-> [success |-> FALSE, message |-> "save failed"],
                      headers |-> JSONHeaders], threw |-> TRUE]
    ELSE [store |-> KVPut(s1, "categories", JSONStringifyCategories(body.categories)),
          resp |-> [status |-> 200, body |-> [success |-> TRUE], headers |-> JSONHeaders],
          threw |-> FALSE]

SaveFailed ==
  [status |-> 200,
   body |-> [success |-> FALSE, message |-> "save failed"],
   headers |-> JSONHeaders]

SaveSucceeded ==
  [status |-> 200, body |-> [success |-> TRUE], headers |-> JSONHeaders]

\* handleSaveData(request); body.ok is FALSE when request.json() throws
HandleSaveData(store, body, fail) ==
  IF ~body.ok THEN [store |-> store, resp |-> SaveFailed, threw |-> FALSE]
  ELSE IF fail = 1 THEN [store |-> store, resp |-> SaveFailed, threw |-> TRUE]
  ELSE
    LET s1 == KVPut(store, "categories", JSONStringifyCategories(body.categories)) IN
    IF fail = 2 THEN [store |-> s1, resp |-> SaveFailed, threw |-> TRUE]
    ELSE [store |-> KVPut(s1, "sites", JSONStringifySites(body.sites)),
          resp |-> SaveSucceeded, threw |-> FALSE]

---------------------------------------------------------------------------
(* Auth Handler *)

AuthSucceeded(token) ==
  [status |-> 200,
   body |-> [success |-> TRUE],
   headers |-> ("Set-Cookie" :> SessionCookie(token))]

WrongPassword ==
  [status |-> 200,
   body |-> [success |-> FALSE, message |-> "incorrect password"],
   headers |-> JSONHeaders]

AuthServerError ==
  [status |-> 200,
   body |-> [success |-> FALSE, message |-> "server error"],
   headers |-> JSONHeaders]

\* if (!storedPassword)
NoPasswordSet(storedPassword) == ~Truthy(storedPassword)

\* a bootstrap that opens a session and stores no password
AuthBootstrapSessionOnly(store, inputPassword, token, fail) ==
  IF fail = 2 THEN [store |-> store, resp |-> AuthServerError, threw |-> TRUE]
  ELSE [store |-> KVPut(store, "admin_session", token),
        resp |-> AuthSucceeded(token), threw |-> FALSE]

\* the branch that sets the submitted password as the admin password
AuthBootstrap(store, inputPassword, token, fail) ==
  IF fail = 2 THEN [store |-> store, resp |-> AuthServerError, threw |-> TRUE]
  ELSE
    LET s1 == KVPut(store, "admin_password", inputPassword) IN
    IF fail = 3 THEN [store |-> s1, resp |-> AuthServerError, threw |-> TRUE]
    ELSE [store |-> KVPut(s1, "admin_session", token),
          resp |-> AuthSucceeded(token), threw |-> FALSE]

\* a verification that sends a new token and leaves the stored one
AuthVerifyKeepsToken(store, inputPassword, storedPassword, token, fail) ==
  IF inputPassword = storedPassword
  THEN [store |-> store, resp |-> AuthSucceeded(token), threw |-> FALSE]
  ELSE [store |-> store, resp |-> WrongPassword, threw |-> FALSE]

\* the branch that verifies the submitted password
AuthVerify(store, inputPassword, storedPassword, token, fail) ==
  IF inputPassword = storedPassword THEN
    IF fail = 2 THEN [store |-> store, resp |-> AuthServerError, threw |-> TRUE]
    ELSE [store |-> KVPut(store, "admin_session", token),
          resp |-> AuthSucceeded(token), threw |-> FALSE]
  ELSE [store |-> store, resp |-> WrongPassword, threw |-> FALSE]

\* handleAuth(request); form.ok is FALSE when request.formData() throws, and
\* token is what generateToken() returns if it is called
HandleAuth(store, form, token, fail) ==
  IF ~form.ok THEN [store |-> store, resp |-> AuthServerError, threw |-> FALSE]
  ELSE IF fail = 1 THEN [store |-> store, resp |-> AuthServerError, threw |-> TRUE]
  ELSE
    LET storedPassword == KVGet(store, "admin_password") IN
    IF NoPasswordSet(storedPassword)
    THEN AuthBootstrap(store, form.password, token, fail)
    ELSE AuthVerify(store, form.password, storedPassword, token, fail)

LoggedOut ==
  [status |-> 200,
   body |-> [success |-> TRUE],
   headers |-> JSONHeaders @@ ("Set-Cookie" :> ClearedCookie)]

\* handleLogout(request): no try/catch
HandleLogout(store, fail) ==
  IF fail = 1 THEN [store |-> store, resp |-> Uncaught, threw |-> TRUE]
  ELSE [store |-> KVDelete(store, "admin_session"), resp |-> LoggedOut, threw |-> FALSE]

ChangeRefused(message) ==
  [status |-> 200,
   body |-> [success |-> FALSE, message |-> message],
   headers |-> JSONHeaders]

\* an answer to a password change that clears the session cookie
PasswordChangedClearsCookie ==
  [status |-> 200,
   body |-> [success |-> TRUE, message |-> "password changed"],
   headers |-> JSONHeaders @@ ("Set-Cookie" :> ClearedCookie)]

PasswordChanged ==
  [status |-> 200,
   body |-> [success |-> TRUE, message |-> "password changed"],
   headers |-> JSONHeaders]

\* a comparison made only when a password is stored
CurrentPasswordWrongIfStored(currentPassword, storedPassword) ==
  Truthy(storedPassword) /\ currentPassword # storedPassword

\* currentPassword !== storedPassword
CurrentPasswordWrong(currentPassword, storedPassword) ==
  currentPassword # storedPassword

\* a password change that also ends the session
HandleChangePasswordEndsSession(store, body, fail) ==
  IF ~body.ok
    THEN [store |-> store, resp |-> ChangeRefused("change failed"), threw |-> FALSE]
  ELSE IF fail = 1
    THEN [store |-> store, resp |-> ChangeRefused("change failed"), threw |-> TRUE]
  ELSE IF body.currentPassword # KVGet(store, "admin_password")
    THEN [store |-> store, resp |-> ChangeRefused("current password incorrect"),
          threw |-> FALSE]
  ELSE IF body.newPassword # body.confirmPassword
    THEN [store |-> store, resp |-> ChangeRefused("passwords do not match"),
          threw |-> FALSE]
  ELSE IF fail = 2
    THEN [store |-> store, resp |-> ChangeRefused("change failed"), threw |-> TRUE]
  ELSE [store |-> KVDelete(KVPut(store, "admin_password", body.newPassword),
                           "admin_session"),
        resp |-> PasswordChanged, threw |-> FALSE]

\* a password change that refuses a new password of fewer than six characters,
\* as the admin page's script does before it sends the request
HandleChangePasswordMinLength(store, body, fail) ==
  IF ~body.ok
    THEN [store |-> store, resp |-> ChangeRefused("change failed"), threw |-> FALSE]
  ELSE IF fail = 1
    THEN [store |-> store, resp |-> ChangeRefused("change failed"), threw |-> TRUE]
  ELSE IF body.currentPassword # KVGet(store, "admin_password")
    THEN [store |-> store, resp |-> ChangeRefused("current password incorrect"),
          threw |-> FALSE]
  ELSE IF body.newPassword # body.confirmPassword
    THEN [store |-> store, resp |-> ChangeRefused("passwords do not match"),
          threw |-> FALSE]
  ELSE IF Len(body.newPassword) < 6
    THEN [store |-> store, resp |-> ChangeRefused("password too short"), threw |-> FALSE]
  ELSE IF fail = 2
    THEN [store |-> store, resp |-> ChangeRefused("change failed"), threw |-> TRUE]
  ELSE [store |-> KVPut(store, "admin_password", body.newPassword),
        resp |-> PasswordChanged, threw |-> FALSE]

\* handleChangePassword(request); body.ok is FALSE when request.json() throws
\* or the body is no object
HandleChangePassword(store, body, fail) ==
  IF ~body.ok
    THEN [store |-> store, resp |-> ChangeRefused("change failed"), threw |-> FALSE]
  ELSE IF fail = 1
    THEN [store |-> store, resp |-> ChangeRefused("change failed"), threw |-> TRUE]
  ELSE IF CurrentPasswordWrong(body.currentPassword, KVGet(store, "admin_password"))
    THEN [store |-> store, resp |-> ChangeRefused("current password incorrect"),
          threw |-> FALSE]
  ELSE IF body.newPassword # body.confirmPassword
    THEN [store |-> store, resp |-> ChangeRefused("passwords do not match"),
          threw |-> FALSE]
  ELSE IF fail = 2
    THEN [store |-> store, resp |-> ChangeRefused("change failed"), threw |-> TRUE]
  ELSE [store |-> KVPut(store, "admin_password", body.newPassword),
        resp |-> PasswordChanged, threw |-> FALSE]

---------------------------------------------------------------------------
(* Router and pages *)

Methods == {"GET", "POST"}

Paths ==
  { "/", "/data", "/admin", "/admin/auth", "/admin/save",
    "/admin/change-password", "/admin/logout", "/administrator", "/about" }

\* a test for the path /admin and the paths below it only
StartsWithAdminSegment(path) ==
  path \in { "/admin", "/admin/auth", "/admin/save", "/admin/change-password",
             "/admin/logout" }

\* path.startsWith('/admin'): a prefix of the text, not of the segments
StartsWithAdmin(path) ==
  path \in { "/admin", "/admin/auth", "/admin/save", "/admin/change-password",
             "/admin/logout", "/administrator" }

\* handleRequest and handleAdminRequest: the handler a request is given to
Route(method, path) ==
  IF path = "/data" /\ method = "GET" THEN "handleGetData"
  ELSE IF StartsWithAdmin(path) THEN
    IF path = "/admin/auth" /\ method = "POST" THEN "handleAuth"
    ELSE IF path = "/admin/save" /\ method = "POST" THEN "handleSaveData"
    ELSE IF path = "/admin/change-password" /\ method = "POST" THEN "handleChangePassword"
    ELSE IF path = "/admin/logout" /\ method = "POST" THEN "handleLogout"
    ELSE "adminPage"
  ELSE "homePage"

\* a gate that shows the console and sends no cookie
HandleAdminPageNoReissue(store, cookieHeader, fail) ==
  LET session == CheckSession(store, cookieHeader, fail) IN
  IF session.threw THEN [store |-> store, resp |-> Uncaught, threw |-> TRUE]
  ELSE [store |-> store,
        resp |-> [status |-> 200,
                  body |-> [page |-> IF session.isAuthenticated
                                     THEN "admin console" ELSE "admin login"],
                  headers |-> HTMLHeaders],
        threw |-> FALSE]

\* the end of handleAdminRequest: the session gate and generateAdminPage
HandleAdminPage(store, cookieHeader, fail) ==
  LET session == CheckSession(store, cookieHeader, fail) IN
  IF session.threw THEN [store |-> store, resp |-> Uncaught, threw |-> TRUE]
  ELSE IF session.isAuthenticated
    THEN [store |-> store,
          resp |-> [status |-> 200,
                    body |-> [page |-> "admin console"],
                    headers |-> HTMLHeaders @@ ("Set-Cookie" :> SessionCookie(session.token))],
          threw |-> FALSE]
  ELSE [store |-> store,
        resp |-> [status |-> 200,
                  body |-> [page |-> "admin login"],
                  headers |-> HTMLHeaders],
        threw |-> FALSE]

\* a router that asks checkSession before it gives a request to
\* handleChangePassword or handleLogout
HandleAdminRequestGated(store, request, token, fail) ==
  IF request.path = "/admin/auth" /\ request.method = "POST"
    THEN HandleAuth(store, request.body, token, fail)
  ELSE IF request.path = "/admin/save" /\ request.method = "POST"
    THEN HandleSaveData(store, request.body, fail)
  ELSE IF ~CheckSession(store, request.cookie, 0).isAuthenticated
    THEN HandleAdminPage(store, request.cookie, fail)
  ELSE IF request.path = "/admin/change-password" /\ request.method = "POST"
    THEN HandleChangePassword(store, request.body, fail)
  ELSE IF request.path = "/admin/logout" /\ request.method = "POST"
    THEN HandleLogout(store, fail)
  ELSE HandleAdminPage(store, request.cookie, fail)

\* handleAdminRequest(request): the request has a method, a path, a Cookie
\* header and a body; token is what generateToken() would give
HandleAdminRequest(store, request, token, fail) ==
  IF request.path = "/admin/auth" /\ request.method = "POST"
    THEN HandleAuth(store, request.body, token, fail)
  ELSE IF request.path = "/admin/save" /\ request.method = "POST"
    THEN HandleSaveData(store, request.body, fail)
  ELSE IF request.path = "/admin/change-password" /\ request.method = "POST"
    THEN HandleChangePassword(store, request.body, fail)
  ELSE IF request.path = "/admin/logout" /\ request.method = "POST"
    THEN HandleLogout(store, fail)
  ELSE HandleAdminPage(store, request.cookie, fail)

\* generateHomePage() in a Response
HomePageResponse ==
  [status |-> 200, body |-> [page |-> "home"], headers |-> HTMLHeaders]

---------------------------------------------------------------------------
(* Requests *)

Passwords == { <<>>, <<"p">>, <<"q">> }

\* the body of POST /admin/auth: unreadable as form data, or a form whose
\* password field is a string or is missing (formData.get answers null)
FormBodies ==
  { [ok |-> FALSE] } \cup { [ok |-> TRUE, password |-> v] : v \in Passwords \cup {Null} }

\* the value of a member of the change-password body: a string, null, or
\* undefined when the member is missing
FieldValues == Passwords \cup {Null, Undefined}

\* newPassword and confirmPassword: two strings, or both null
NewAndConfirm == (Passwords \X Passwords) \cup { <<Null, Null>> }

ChangeBodies ==
  { [ok |-> FALSE] } \cup
  { [ok |-> TRUE, currentPassword |-> c, newPassword |-> nc[1], confirmPassword |-> nc[2]] :
      c \in FieldValues, nc \in NewAndConfirm }

\* the bodies of POST /admin/save: unreadable as JSON, or an object whose
\* members categories and sites are lists or are missing
SaveBodies ==
  { [ok |-> FALSE] } \cup
  { [ok |-> TRUE, categories |-> c, sites |-> s] :
      c \in {Missing} \cup { Present(v) : v \in CategoryLists },
      s \in {Missing} \cup { Present(v) : v \in SiteLists } }

\* the save bodies of the specification of the whole worker
FewSaveBodies ==
  { [ok |-> FALSE],
    [ok |-> TRUE,
     categories |-> Present(<<"A">>),
     sites |-> Present(<<[name |-> "g", url |-> "u", category |-> "A", icon |-> ""]>>)] }

\* the change-password bodies of the specification of the whole worker
FewChangeBodies ==
  { [ok |-> FALSE] } \cup
  { [ok |-> TRUE, currentPassword |-> c, newPassword |-> nc[1], confirmPassword |-> nc[2]] :
      c \in { <<"p">>, Null },
      nc \in { << <<"q">>, <<"q">> >>, << <<>>, <<>> >>, << <<"q">>, <<"p">> >> } }

\* the Cookie header a browser holding token sends
CookieOf(token) == SessionPrefix \o token

\* Cookie headers: none (null), empty, the session cookie with an empty value,
\* another cookie alone, the session cookie alone, with '=' and more after the
\* token, after another cookie, and after a session cookie of another value
CookieHeaders ==
  { Null, <<>>, SessionPrefix, <<"o", "=", "1">>,
    CookieOf(<<"t", "1">>), CookieOf(<<"t", "2">>),
    CookieOf(<<"t", "1">>) \o <<"=", "x">>,
    <<"o", "=", "1", ";", " ">> \o CookieOf(<<"t", "1">>),
    CookieOf(<<"t", "0">>) \o <<";", " ">> \o CookieOf(<<"t", "1">>) }

\* the Cookie headers of the specification of the whole worker
FewCookies == { Null, CookieOf(<<"t", "1">>), CookieOf(<<"t", "2">>) }

---------------------------------------------------------------------------
(* The script of the home page *)

\* the example categories of the catch branch of loadNavigationData (common
\* sites, learning resources, entertainment)
DefaultCategories == <<"common", "learning", "fun">>

\* its example sites: GitHub and Google, MDN, YouTube
DefaultSites ==
  << [name |-> "GitHub", url |-> "https://github.com", category |-> "common", icon |-> "github"],
     [name |-> "Google", url |-> "https://google.com", category |-> "common", icon |-> "google"],
     [name |-> "MDN", url |-> "https://developer.mozilla.org", category |-> "learning",
      icon |-> "code"],
     [name |-> "YouTube", url |-> "https://youtube.com", category |-> "fun", icon |-> "youtube"] >>

\* sites.filter(site => site.category === category)
CategorySites(sites, category) == SelectSeq(sites, LAMBDA site : site.category = category)

RECURSIVE RenderedCategories(_, _)
\* the blocks categories.forEach appends: one per category that has a site
RenderedCategories(categories, sites) ==
  IF categories = <<>> THEN <<>>
  ELSE
    LET categorySites == CategorySites(sites, Head(categories)) IN
    (IF categorySites = <<>> THEN <<>>
     ELSE << [title |-> Head(categories), cards |-> categorySites] >>)
    \o RenderedCategories(Tail(categories), sites)

\* renderCategories(categories, sites): what the container shows; the lists of
\* a response of handleGetData are arrays, so !categories is false
RenderCategories(categories, sites) ==
  IF categories = <<>> THEN [view |-> "empty-state", title |-> "no categories"]
  ELSE
    LET html == RenderedCategories(categories, sites) IN
    IF html = <<>> THEN [view |-> "empty-state", title |-> "no sites"]
    ELSE [view |-> "categories", blocks |-> html]

\* response.ok
ResponseOk(resp) == resp.status >= 200 /\ resp.status <= 299

\* loadNavigationData(): fetched.rejected when fetch('/data') throws,
\* fetched.resp the response it resolves to otherwise
LoadNavigationData(fetched) ==
  IF fetched.rejected \/ ~ResponseOk(fetched.resp)
  THEN RenderCategories(DefaultCategories, DefaultSites)
  ELSE RenderCategories(fetched.resp.body.categories, fetched.resp.body.sites)

---------------------------------------------------------------------------
(* The script of the admin page *)

\* The state of the script is [categories, sites, options, sound]: its two
\* arrays, the option values of the select siteCategory (the empty first
\* option left out), and whether the lists it loaded last had different
\* categories and no site of an unlisted category.  The texts typed into the
\* form are atoms without outer blanks, so trim() leaves them as they are.

\* array.splice(index, 1), index counted from 1
Splice(array, index) ==
  [i \in 1..(Len(array) - 1) |-> IF i < index THEN array[i] ELSE array[i + 1]]

\* categories.includes(categoryName)
Includes(array, value) == \E i \in 1..Len(array) : array[i] = value

\* updateCategorySelect(): one option per category
UpdateCategorySelect(a) == [a EXCEPT !.options = a.categories]

\* the click handler of addCategoryBtn
AddCategoryClick(a, categoryName) ==
  IF categoryName = "" THEN a
  ELSE IF ~Includes(a.categories, categoryName)
    THEN UpdateCategorySelect([a EXCEPT !.categories = Append(@, categoryName)])
  ELSE a

\* url.startsWith('http://') || url.startsWith('https://')
StartsWithHTTP(url) == url \in {"http://u"}

\* the click handler of addSiteBtn; iconInput empty: the globe icon
AddSiteClick(a, name, url, category, iconInput) ==
  LET icon == IF iconInput = "" THEN "globe" ELSE iconInput IN
  IF name = "" \/ url = "" \/ category = "" THEN a
  ELSE IF ~StartsWithHTTP(url) THEN a
  ELSE [a EXCEPT !.sites =
          Append(@, [name |-> name, url |-> url, category |-> category, icon |-> icon])]

\* a removal of the category that keeps its sites
RemoveCategoryOnly(a, index, confirmed) ==
  IF ~confirmed THEN a
  ELSE UpdateCategorySelect([a EXCEPT !.categories = Splice(@, index)])

\* window.removeCategory(index); confirmed: the answer to confirm()
RemoveCategory(a, index, confirmed) ==
  IF ~confirmed THEN a
  ELSE
    LET category == a.categories[index] IN
    UpdateCategorySelect(
      [a EXCEPT !.sites = SelectSeq(@, LAMBDA site : site.category # category),
                !.categories = Splice(@, index)])

\* window.removeSite(index)
RemoveSite(a, index, confirmed) ==
  IF ~confirmed THEN a ELSE [a EXCEPT !.sites = Splice(@, index)]

\* categories are different and every site's category is listed
Sound(categories, sites) ==
  /\ \A i, j \in 1..Len(categories) : categories[i] = categories[j] => i = j
  /\ \A i \in 1..Len(sites) : Includes(categories, sites[i].category)

\* loadCurrentData(): the arrays of an OK response replace the script's
LoadCurrentData(a, fetched) ==
  UpdateCategorySelect(
    IF ~fetched.rejected /\ ResponseOk(fetched.resp)
    THEN [a EXCEPT !.categories = fetched.resp.body.categories,
                   !.sites = fetched.resp.body.sites,
                   !.sound = Sound(fetched.resp.body.categories, fetched.resp.body.sites)]
    ELSE a)

\* the body of the click handler of saveBtn, as request.json() reads it:
\* JSON.stringify({ categories, sites }) parsed again
SaveBody(a) ==
  [ok |-> TRUE,
   categories |-> Present(JSONParse(JSONStringifyCategories(Present(a.categories))).val),
   sites |-> Present(JSONParse(JSONStringifySites(Present(a.sites))).val)]

---------------------------------------------------------------------------
(* The state machine: one action per handler, each request handled whole *)

EmptyStore == [k \in Keys |-> Null]

\* the requests handled step by step
Requests == {"A", "B"}

Init ==
  /\ kv = EmptyStore
  /\ last = [handler |-> "none"]
  /\ issued = Null
  /\ home = [outcome |-> "none", page |-> [view |-> "loading"]]
  /\ admin = [categories |-> <<>>, sites |-> <<>>, options |-> <<>>, sound |-> TRUE]
  /\ inflight = [r \in Requests |-> [pc |-> "idle"]]

GetData ==
  \E method \in Methods, path \in Paths, fail \in 0..2 :
    /\ Route(method, path) = "handleGetData"
    /\ \E r \in { HandleGetData(kv, fail) } :
       /\ fail = 0 \/ r.threw
       /\ kv' = r.store
       /\ last' = [handler |-> "handleGetData", method |-> method, path |-> path,
                   fail |-> fail, resp |-> r.resp]
    /\ UNCHANGED <<issued, home, admin, inflight>>

\* last.fail: the KV call that threw (0: none); last.storedPassword: what the
\* store held under admin_password when the request came; last.previous: the
\* token the successful login before this request issued
Auth ==
  \E method \in Methods, path \in Paths, form \in FormBodies,
     token \in Tokens, fail \in 0..3 :
    /\ Route(method, path) = "handleAuth"
    /\ \E r \in { HandleAuth(kv, form, token, fail) } :
       /\ fail = 0 \/ r.threw
       /\ kv' = r.store
       /\ last' = [handler |-> "handleAuth", method |-> method, path |-> path,
                   form |-> form, fail |-> fail, storedPassword |-> KVGet(kv, "admin_password"),
                   previous |-> issued, resp |-> r.resp]
       /\ issued' = IF r.resp.body.success THEN token ELSE issued
    /\ UNCHANGED <<home, admin, inflight>>

\* POST /admin/save with a body of bodies and a Cookie header of cookies
SaveDataWith(bodies, cookies) ==
  \E method \in Methods, path \in Paths, cookie \in cookies,
     body \in bodies, fail \in 0..2 :
    /\ Route(method, path) = "handleSaveData"
    /\ \E r \in { HandleSaveData(kv, body, fail) } :
       /\ fail = 0 \/ r.threw
       /\ kv' = r.store
       /\ last' = [handler |-> "handleSaveData", method |-> method, path |-> path,
                   cookie |-> cookie, fail |-> fail, resp |-> r.resp]
    /\ UNCHANGED <<issued, home, admin, inflight>>

\* POST /admin/change-password with a body of bodies
ChangePasswordWith(bodies) ==
  \E method \in Methods, path \in Paths, body \in bodies, fail \in 0..2 :
    /\ Route(method, path) = "handleChangePassword"
    /\ \E r \in { HandleChangePassword(kv, body, fail) } :
       /\ fail = 0 \/ r.threw
       /\ kv' = r.store
       /\ last' = [handler |-> "handleChangePassword", method |-> method, path |-> path,
                   body |-> body, fail |-> fail, storedPassword |-> KVGet(kv, "admin_password"),
                   resp |-> r.resp]
    /\ UNCHANGED <<issued, home, admin, inflight>>

Logout ==
  \E method \in Methods, path \in Paths, fail \in 0..1 :
    /\ Route(method, path) = "handleLogout"
    /\ \E r \in { HandleLogout(kv, fail) } :
       /\ fail = 0 \/ r.threw
       /\ kv' = r.store
       /\ last' = [handler |-> "handleLogout", method |-> method, path |-> path,
                   fail |-> fail, resp |-> r.resp]
    /\ UNCHANGED <<issued, home, admin, inflight>>

\* a request to the admin page with a Cookie header of cookies
AdminPageWith(cookies) ==
  \E method \in Methods, path \in Paths, cookie \in cookies, fail \in 0..1 :
    /\ Route(method, path) = "adminPage"
    /\ \E r \in { HandleAdminPage(kv, cookie, fail) } :
       /\ fail = 0 \/ r.threw
       /\ kv' = r.store
       /\ last' = [handler |-> "adminPage", method |-> method, path |-> path,
                   cookie |-> cookie, fail |-> fail, resp |-> r.resp]
    /\ UNCHANGED <<issued, home, admin, inflight>>

HomePage ==
  \E method \in Methods, path \in Paths :
    /\ Route(method, path) = "homePage"
    /\ last' = [handler |-> "homePage", method |-> method, path |-> path,
                resp |-> HomePageResponse]
    /\ UNCHANGED <<kv, issued, home, admin, inflight>>

SaveData == SaveDataWith(FewSaveBodies, FewCookies)

ChangePassword == ChangePasswordWith(FewChangeBodies)

AdminPage == AdminPageWith(FewCookies)

Next ==
  \/ GetData
  \/ Auth
  \/ SaveData
  \/ ChangePassword
  \/ Logout
  \/ AdminPage
  \/ HomePage

\* the whole worker, with few bodies and Cookie headers
Spec == Init /\ [][Next]_vars

SaveLists == SaveDataWith(SaveBodies, {Null})

NextData ==
  \/ SaveLists
  \/ GetData

\* the Data Handler alone, with every body of SaveBodies
SpecData == Init /\ [][NextData]_vars

ChangeAnyPassword == ChangePasswordWith(ChangeBodies)

NextPassword ==
  \/ Auth
  \/ ChangeAnyPassword

\* login and password change, with every body of ChangeBodies
SpecPassword == Init /\ [][NextPassword]_vars

AdminPageAnyCookie == AdminPageWith(CookieHeaders)

NextSession ==
  \/ Auth
  \/ Logout
  \/ AdminPageAnyCookie

\* login, logout and the session gate, with every header of CookieHeaders
SpecSession == Init /\ [][NextSession]_vars

\* the save bodies of the specification of the home page: those of the whole
\* worker and one without the member sites
HomeSaveBodies ==
  FewSaveBodies \cup
  { [ok |-> TRUE, categories |-> Present(<<"A">>), sites |-> Missing],
    [ok |-> TRUE, categories |-> Present(<<"B">>), sites |-> Present(<<>>)] }

SaveForHome == SaveDataWith(HomeSaveBodies, {Null})

\* A browser opens the home page and its script loads /data: the fetch is
\* rejected (no network), resolves to an error response that is not the
\* worker's, or resolves to what handleGetData answers.  home.failed: a KV read
\* of handleGetData threw or a stored text was no JSON.
LoadHomePage ==
  \E outcome \in {"rejected", "not ok", "answered"}, fail \in 0..2 :
    \E r \in { HandleGetData(kv, fail) } :
      /\ fail = 0 \/ (outcome = "answered" /\ r.threw)
      /\ \E fetched \in { IF outcome = "rejected" THEN [rejected |-> TRUE]
                          ELSE IF outcome = "not ok"
                            THEN [rejected |-> FALSE, resp |-> Uncaught]
                          ELSE [rejected |-> FALSE, resp |-> r.resp] } :
           home' = [outcome |-> outcome,
                    failed |-> outcome = "answered" /\ r.resp = GetDataFallback,
                    page |-> LoadNavigationData(fetched)]
      /\ last' = IF outcome = "answered"
                 THEN [handler |-> "handleGetData", method |-> "GET", path |-> "/data",
                       fail |-> fail, resp |-> r.resp]
                 ELSE last
      /\ UNCHANGED <<kv, issued, admin, inflight>>

NextHome ==
  \/ SaveForHome
  \/ LoadHomePage

\* the home page's script and the saves that feed it
SpecHome == Init /\ [][NextHome]_vars

\* the save bodies of the specification of the admin page: lists whose
\* categories are different and whose sites are all of a listed category
ConsistentSaveBodies ==
  { [ok |-> TRUE,
     categories |-> Present(<<"A", "B">>),
     sites |-> Present(<< [name |-> "g", url |-> "http://u", category |-> "A",
                           icon |-> "globe"],
                          [name |-> "g", url |-> "http://u", category |-> "B",
                           icon |-> "globe"] >>)],
    [ok |-> TRUE,
     categories |-> Present(<<"B">>),
     sites |-> Present(<< [name |-> "g", url |-> "http://u", category |-> "B",
                           icon |-> "globe"] >>)] }

SaveConsistent == SaveDataWith(ConsistentSaveBodies, {Null})

\* A browser opens the admin console and its script loads /data
AdminLoad ==
  \E outcome \in {"rejected", "not ok", "answered"}, fail \in 0..1 :
    \E r \in { HandleGetData(kv, fail) } :
      /\ fail = 0 \/ (outcome = "answered" /\ r.threw)
      /\ \E fetched \in { IF outcome = "rejected" THEN [rejected |-> TRUE]
                          ELSE IF outcome = "not ok"
                            THEN [rejected |-> FALSE, resp |-> Uncaught]
                          ELSE [rejected |-> FALSE, resp |-> r.resp] } :
           admin' = LoadCurrentData(admin, fetched)
      /\ last' = IF outcome = "answered"
                 THEN [handler |-> "handleGetData", method |-> "GET", path |-> "/data",
                       fail |-> fail, resp |-> r.resp]
                 ELSE last
      /\ UNCHANGED <<kv, issued, home, inflight>>

AdminAddCategory ==
  \E categoryName \in Names \cup {""} :
    /\ admin' = AddCategoryClick(admin, categoryName)
    /\ UNCHANGED <<kv, last, issued, home, inflight>>

\* the category is the value of the select: one of its options, or the empty
\* first option; the site list of the model holds MaxLen sites at most
AdminAddSite ==
  \E name \in {"g", ""}, url \in {"http://u", "u", ""},
     category \in { admin.options[i] : i \in 1..Len(admin.options) } \cup {""} :
    /\ Len(admin.sites) < MaxLen
    /\ admin' = AddSiteClick(admin, name, url, category, "")
    /\ UNCHANGED <<kv, last, issued, home, inflight>>

\* a click on the button rendered for the category at index
AdminRemoveCategory ==
  \E index \in 1..Len(admin.categories), confirmed \in BOOLEAN :
    /\ admin' = RemoveCategory(admin, index, confirmed)
    /\ UNCHANGED <<kv, last, issued, home, inflight>>

AdminRemoveSite ==
  \E index \in 1..Len(admin.sites), confirmed \in BOOLEAN :
    /\ admin' = RemoveSite(admin, index, confirmed)
    /\ UNCHANGED <<kv, last, issued, home, inflight>>

\* the click handler of saveBtn: POST /admin/save with the script's arrays
AdminSave ==
  \E fail \in 0..2 :
    \E r \in { HandleSaveData(kv, SaveBody(admin), fail) } :
      /\ fail = 0 \/ r.threw
      /\ kv' = r.store
      /\ last' = [handler |-> "handleSaveData", method |-> "POST", path |-> "/admin/save",
                  cookie |-> IF issued = Null THEN Null ELSE CookieOf(issued),
                  fail |-> fail, resp |-> r.resp]
      /\ UNCHANGED <<issued, home, admin, inflight>>

NextAdmin ==
  \/ SaveConsistent
  \/ AdminLoad
  \/ AdminAddCategory
  \/ AdminAddSite
  \/ AdminRemoveCategory
  \/ AdminRemoveSite
  \/ AdminSave

\* the admin page's script over a store of consistent lists
SpecAdmin == Init /\ [][NextAdmin]_vars

\* the bodies of the saves handled step by step: two snapshots that differ in
\* both lists, and a body that is no JSON
SnapshotBodies ==
  { [ok |-> TRUE,
     categories |-> Present(<<"A">>),
     sites |-> Present(<< [name |-> "g", url |-> "u", category |-> "A", icon |-> ""] >>)],
    [ok |-> TRUE,
     categories |-> Present(<<"B">>),
     sites |-> Present(<< [name |-> "h", url |-> "u", category |-> "B", icon |-> "i"] >>)],
    [ok |-> FALSE] }

\* how a save handled step by step ends: its response, and the request in last
SaveEnds(r, body, fail, resp) ==
  /\ inflight' = [inflight EXCEPT ![r] = [pc |-> "done", body |-> body, resp |-> resp]]
  /\ last' = [handler |-> "handleSaveData", method |-> "POST", path |-> "/admin/save",
              cookie |-> Null, fail |-> fail, resp |-> resp]

\* POST /admin/save arrives as request r and handleSaveData reads its body
SaveArrives(r) ==
  \E body \in SnapshotBodies :
    /\ inflight[r].pc \in {"idle", "done"}
    /\ IF body.ok
       THEN /\ inflight' = [inflight EXCEPT ![r] = [pc |-> "categories", body |-> body]]
            /\ UNCHANGED last
       ELSE SaveEnds(r, body, 0, SaveFailed)
    /\ UNCHANGED <<kv, issued, home, admin>>

\* a first put that waits while another save is between its two puts
SaveWritesCategoriesLocked(r) ==
  \E threw \in BOOLEAN :
    /\ inflight[r].pc = "categories"
    /\ \A o \in Requests \ {r} : inflight[o].pc # "sites"
    /\ IF threw
       THEN /\ SaveEnds(r, inflight[r].body, 1, SaveFailed)
            /\ UNCHANGED kv
       ELSE /\ kv' = KVPut(kv, "categories",
                           JSONStringifyCategories(inflight[r].body.categories))
            /\ inflight' = [inflight EXCEPT ![r].pc = "sites"]
            /\ UNCHANGED last
    /\ UNCHANGED <<issued, home, admin>>

\* request r at await NAVIGATION_STORE.put('categories', ...)
SaveWritesCategories(r) ==
  \E threw \in BOOLEAN :
    /\ inflight[r].pc = "categories"
    /\ IF threw
       THEN /\ SaveEnds(r, inflight[r].body, 1, SaveFailed)
            /\ UNCHANGED kv
       ELSE /\ kv' = KVPut(kv, "categories",
                           JSONStringifyCategories(inflight[r].body.categories))
            /\ inflight' = [inflight EXCEPT ![r].pc = "sites"]
            /\ UNCHANGED last
    /\ UNCHANGED <<issued, home, admin>>

\* request r at await NAVIGATION_STORE.put('sites', ...), and its response
SaveWritesSites(r) ==
  \E threw \in BOOLEAN :
    /\ inflight[r].pc = "sites"
    /\ IF threw
       THEN /\ SaveEnds(r, inflight[r].body, 2, SaveFailed)
            /\ UNCHANGED kv
       ELSE /\ kv' = KVPut(kv, "sites", JSONStringifySites(inflight[r].body.sites))
            /\ SaveEnds(r, inflight[r].body, 0, SaveSucceeded)
    /\ UNCHANGED <<issued, home, admin>>

SaveRequestArrives == \E r \in Requests : SaveArrives(r)

SavePutsCategories == \E r \in Requests : SaveWritesCategories(r)

SavePutsSites == \E r \in Requests : SaveWritesSites(r)

NextConcurrentSaves ==
  \/ SaveRequestArrives
  \/ SavePutsCategories
  \/ SavePutsSites

\* two saves handled at the same time, each step one await of handleSaveData
SpecConcurrentSaves == Init /\ [][NextConcurrentSaves]_vars

\* the paths of the requests given to handleAdminRequest as a whole
GatePaths == { "/admin", "/admin/change-password", "/admin/logout" }

\* the bodies that come with a request to path
BodiesFor(path) ==
  IF path = "/admin/change-password" THEN FewChangeBodies ELSE { [ok |-> FALSE] }

\* a request to /admin, /admin/change-password or /admin/logout with a Cookie
\* header, handled by handleAdminRequest
AdminRequest ==
  \E method \in Methods, path \in GatePaths, cookie \in FewCookies,
     body \in FewChangeBodies, fail \in 0..2 :
    /\ StartsWithAdmin(path)
    /\ body \in BodiesFor(path)
    /\ \E request \in { [method |-> method, path |-> path, cookie |-> cookie, body |-> body] } :
       \E r \in { HandleAdminRequest(kv, request, Null, fail) } :
         /\ fail = 0 \/ r.threw
         /\ kv' = r.store
         /\ last' = [handler |-> Route(method, path), method |-> method, path |-> path,
                     cookie |-> cookie, body |-> body, fail |-> fail, resp |-> r.resp]
    /\ UNCHANGED <<issued, home, admin, inflight>>

NextCookie ==
  \/ Auth
  \/ AdminRequest

\* logins, and requests with and without a session cookie to the admin page,
\* to change-password and to logout
SpecCookie == Init /\ [][NextCookie]_vars

\* how a read handled step by step ends
GetEnds(r, fail, resp) ==
  /\ inflight' = [inflight EXCEPT ![r] = [pc |-> "done", resp |-> resp]]
  /\ last' = [handler |-> "handleGetData", method |-> "GET", path |-> "/data",
              fail |-> fail, resp |-> resp]

\* GET /data arrives as request r
GetArrives(r) ==
  /\ inflight[r].pc \in {"idle", "done"}
  /\ inflight' = [inflight EXCEPT ![r] = [pc |-> "get categories"]]
  /\ UNCHANGED <<kv, last, issued, home, admin>>

\* request r at await NAVIGATION_STORE.get('categories')
GetReadsCategories(r) ==
  \E threw \in BOOLEAN :
    /\ inflight[r].pc = "get categories"
    /\ IF threw
       THEN GetEnds(r, 1, GetDataFallback)
       ELSE /\ inflight' = [inflight EXCEPT ![r] =
                              [pc |-> "get sites", categories |-> KVGet(kv, "categories")]]
            /\ UNCHANGED last
    /\ UNCHANGED <<kv, issued, home, admin>>

\* request r at await NAVIGATION_STORE.get('sites'), and its response
GetReadsSites(r) ==
  \E threw \in BOOLEAN :
    /\ inflight[r].pc = "get sites"
    /\ IF threw
       THEN GetEnds(r, 2, GetDataFallback)
       ELSE GetEnds(r, 0, GetDataResponse(inflight[r].categories, KVGet(kv, "sites")))
    /\ UNCHANGED <<kv, issued, home, admin>>

\* in the specification of a read beside a save, A saves and B reads
Saver == "A"

Reader == "B"

SaverArrives == SaveArrives(Saver)

SaverPutsCategories == SaveWritesCategories(Saver)

SaverPutsSites == SaveWritesSites(Saver)

ReaderArrives == GetArrives(Reader)

ReaderGetsCategories == GetReadsCategories(Reader)

ReaderGetsSites == GetReadsSites(Reader)

NextConcurrentRead ==
  \/ SaverArrives
  \/ SaverPutsCategories
  \/ SaverPutsSites
  \/ ReaderArrives
  \/ ReaderGetsCategories
  \/ ReaderGetsSites

\* a read handled beside one save at a time, each step one await of
\* handleGetData or handleSaveData
SpecConcurrentRead == Init /\ [][NextConcurrentRead]_vars

\* the forms of the logins handled step by step
LoginForms == { [ok |-> TRUE, password |-> <<"p">>], [ok |-> TRUE, password |-> <<"q">>] }

\* how a login handled step by step ends; read: what it read under
\* admin_password (Undefined when it ended before)
LoginEnds(r, read, fail, resp) ==
  /\ inflight' = [inflight EXCEPT ![r] = [pc |-> "done", form |-> inflight[r].form,
                                          read |-> read, resp |-> resp]]
  /\ last' = [handler |-> "handleAuth", method |-> "POST", path |-> "/admin/auth",
              form |-> inflight[r].form, fail |-> fail, storedPassword |-> read,
              previous |-> issued, resp |-> resp]

\* POST /admin/auth arrives as request r and handleAuth reads its form
LoginArrives(r) ==
  \E form \in LoginForms :
    /\ inflight[r].pc \in {"idle", "done"}
    /\ inflight' = [inflight EXCEPT ![r] = [pc |-> "get", form |-> form]]
    /\ UNCHANGED <<kv, last, issued, home, admin>>

\* request r at await NAVIGATION_STORE.get('admin_password'), and the two
\* tests that follow it
LoginReadsPassword(r) ==
  \E threw \in BOOLEAN :
    /\ inflight[r].pc = "get"
    /\ \E storedPassword \in { KVGet(kv, "admin_password") } :
         IF threw THEN LoginEnds(r, Undefined, 1, AuthServerError)
         ELSE IF NoPasswordSet(storedPassword)
           THEN /\ inflight' = [inflight EXCEPT ![r] =
                                  [pc |-> "put password", form |-> inflight[r].form,
                                   read |-> storedPassword]]
                /\ UNCHANGED last
         ELSE IF inflight[r].form.password = storedPassword
           THEN /\ inflight' = [inflight EXCEPT ![r] =
                                  [pc |-> "put session", form |-> inflight[r].form,
                                   read |-> storedPassword]]
                /\ UNCHANGED last
         ELSE LoginEnds(r, storedPassword, 0, WrongPassword)
    /\ UNCHANGED <<kv, issued, home, admin>>

\* request r at await NAVIGATION_STORE.put('admin_password', inputPassword)
LoginWritesPassword(r) ==
  \E threw \in BOOLEAN :
    /\ inflight[r].pc = "put password"
    /\ IF threw
       THEN /\ LoginEnds(r, inflight[r].read, 2, AuthServerError)
            /\ UNCHANGED kv
       ELSE /\ kv' = KVPut(kv, "admin_password", inflight[r].form.password)
            /\ inflight' = [inflight EXCEPT ![r].pc = "put session"]
            /\ UNCHANGED last
    /\ UNCHANGED <<issued, home, admin>>

\* a put of the token that leaves a stored token in place
LoginWritesSessionIfNone(r) ==
  \E token \in Tokens, threw \in BOOLEAN :
    /\ inflight[r].pc = "put session"
    /\ IF threw
       THEN /\ LoginEnds(r, inflight[r].read, IF NoPasswordSet(inflight[r].read) THEN 3 ELSE 2,
                         AuthServerError)
            /\ UNCHANGED <<kv, issued>>
       ELSE /\ kv' = IF KVGet(kv, "admin_session") = Null
                     THEN KVPut(kv, "admin_session", token) ELSE kv
            /\ LoginEnds(r, inflight[r].read, 0, AuthSucceeded(token))
            /\ issued' = token
    /\ UNCHANGED <<home, admin>>

\* request r at generateToken() and await NAVIGATION_STORE.put('admin_session',
\* token), and its response
LoginWritesSession(r) ==
  \E token \in Tokens, threw \in BOOLEAN :
    /\ inflight[r].pc = "put session"
    /\ IF threw
       THEN /\ LoginEnds(r, inflight[r].read, IF NoPasswordSet(inflight[r].read) THEN 3 ELSE 2,
                         AuthServerError)
            /\ UNCHANGED <<kv, issued>>
       ELSE /\ kv' = KVPut(kv, "admin_session", token)
            /\ LoginEnds(r, inflight[r].read, 0, AuthSucceeded(token))
            /\ issued' = token
    /\ UNCHANGED <<home, admin>>

LoginRequestArrives == \E r \in Requests : LoginArrives(r)

LoginGetsPassword == \E r \in Requests : LoginReadsPassword(r)

LoginPutsPassword == \E r \in Requests : LoginWritesPassword(r)

LoginPutsSession == \E r \in Requests : LoginWritesSession(r)

NextConcurrentLogins ==
  \/ LoginRequestArrives
  \/ LoginGetsPassword
  \/ LoginPutsPassword
  \/ LoginPutsSession

\* two logins handled at the same time, each step one await of handleAuth
SpecConcurrentLogins == Init /\ [][NextConcurrentLogins]_vars

---------------------------------------------------------------------------
(* Properties *)

\* a browser holding token is authenticated against store
Accepts(store, token) == CheckSession(store, CookieOf(token), 0).isAuthenticated

\* the last request was a login answered success:true
LoginSucceeded == last.handler = "handleAuth" /\ last.resp.body.success

\* the token in the Set-Cookie header of a successful login
TokenSet(resp) == resp.headers["Set-Cookie"].value

\* C1 (bootstrap): a login that finds no admin_password key and whose KV calls
\* all succeed stores the submitted password p as admin_password, stores the
\* token it generated as admin_session, and answers success:true with a
\* Set-Cookie admin_session carrying exactly that token.
C1_Bootstrap ==
  ( /\ last.handler = "handleAuth"
    /\ last.form.ok
    /\ IsString(last.form.password)
    /\ last.storedPassword = Null
    /\ last.fail = 0 )
  => /\ kv["admin_password"] = last.form.password
     /\ last.resp.body = [success |-> TRUE]
     /\ last.resp.status = 200
     /\ "Set-Cookie" \in DOMAIN last.resp.headers
     /\ last.resp.headers["Set-Cookie"].name = SessionName
     /\ TokenSet(last.resp) = issued
     /\ issued \in Tokens
     /\ kv["admin_session"] = issued

C1_Witness ==
  /\ last.handler = "handleAuth"
  /\ last.form.ok
  /\ last.form.password = <<"p">>
  /\ last.storedPassword = Null
  /\ last.fail = 0
  /\ kv["admin_password"] = <<"p">>
  /\ kv["admin_session"] = TokenSet(last.resp)

\* C2 (auth correctness): once a password P is stored, a login submitting the
\* string p, its KV calls succeeding, is answered success:true if and only if
\* p equals P.
C2_AuthCorrectness ==
  ( /\ last.handler = "handleAuth"
    /\ last.form.ok
    /\ IsString(last.form.password)
    /\ last.storedPassword # Null
    /\ last.fail = 0 )
  => (last.resp.body.success <=> last.form.password = last.storedPassword)

\* C3 (saveData requires authentication): a POST /admin/save changes the stored
\* categories or sites only if its Cookie header authenticates against the
\* stored session token.
C3_SaveRequiresSession ==
  [][ ( /\ last'.handler = "handleSaveData"
        /\ \/ kv'["categories"] # kv["categories"]
           \/ kv'["sites"] # kv["sites"] )
      => CheckSession(kv, last'.cookie, 0).isAuthenticated ]_vars

\* C4 (single active session): at most one token is accepted by checkSession
\* in any state, and after a successful login issuing t2 that follows a
\* successful login issuing a different token t1, a request carrying t1 is not
\* authenticated and a request carrying t2 is.
C4_SingleSession ==
  /\ Cardinality({ t \in Tokens : Accepts(kv, t) }) <= 1
  /\ ( /\ LoginSucceeded
       /\ last.previous # Null
       /\ last.previous # TokenSet(last.resp) )
     => /\ ~Accepts(kv, last.previous)
        /\ Accepts(kv, TokenSet(last.resp))

C4_Witness ==
  /\ LoginSucceeded
  /\ last.previous = <<"t", "1">>
  /\ TokenSet(last.resp) = <<"t", "2">>
  /\ Accepts(kv, <<"t", "2">>)

\* the step is a login answered success:true
LoginStep == last'.handler = "handleAuth" /\ last'.resp.body.success

\* the step is a logout whose delete did not throw
LogoutStep == last'.handler = "handleLogout" /\ last'.fail = 0

\* some Cookie header authenticates against store
SomeoneAuthenticated(store) ==
  \E cookie \in CookieHeaders : CheckSession(store, cookie, 0).isAuthenticated

C6_SaveRoundTrip ==
  \A body \in SaveBodies :
    (body.ok /\ body.categories.defined /\ body.sites.defined) =>
      \E saved \in { HandleSaveData(kv, body, 0) } :
        /\ saved.resp.body = [success |-> TRUE]
        /\ HandleGetData(saved.store, 0).resp.body =
             [categories |-> body.categories.val, sites |-> body.sites.val]

C6_Witness ==
  /\ last.handler = "handleGetData"
  /\ last.fail = 0
  /\ last.resp.body.categories = <<"B", "A">>
  /\ Len(last.resp.body.sites) = 2
  /\ last.resp.body.sites[1].name = "h"
  /\ last.resp.body.sites[2].name = "g"

\* the stored text is not JSON
InvalidJSON(text) == Truthy(text) /\ ~JSONParse(text).ok

\* C7 (fail-soft read): getData never throws and answers with status 200 and a
\* body of two sequences; an absent key yields the empty sequence for its
\* collection; when either key holds invalid JSON or a KV read throws, the body
\* is {categories: [], sites: []}.
C7_FailSoftRead ==
  last.handler = "handleGetData" =>
    /\ last.resp # Uncaught
    /\ last.resp.status = 200
    /\ DOMAIN last.resp.body = {"categories", "sites"}
    /\ (last.fail = 0 /\ kv["categories"] = Null) => last.resp.body.categories = <<>>
    /\ (last.fail = 0 /\ kv["sites"] = Null) => last.resp.body.sites = <<>>
    /\ (last.fail # 0 \/ InvalidJSON(kv["categories"]) \/ InvalidJSON(kv["sites"]))
         => last.resp.body = [categories |-> <<>>, sites |-> <<>>]

C7_Witness ==
  /\ last.handler = "handleGetData"
  /\ last.fail = 0
  /\ JSONParse(kv["categories"]) = [ok |-> TRUE, val |-> <<"A", "B">>]
  /\ InvalidJSON(kv["sites"])
  /\ last.resp.body = [categories |-> <<>>, sites |-> <<>>]

\* C8 (password change guard): a changePassword whose currentPassword differs
\* from the stored password, or whose newPassword differs from
\* confirmPassword, is answered success:false and leaves admin_password as it
\* was.
C8_ChangeGuard ==
  ( /\ last.handler = "handleChangePassword"
    /\ last.body.ok
    /\ \/ last.body.currentPassword # last.storedPassword
       \/ last.body.newPassword # last.body.confirmPassword )
  => /\ last.resp.body.success = FALSE
     /\ kv["admin_password"] = last.storedPassword

C8_Witness ==
  /\ last.handler = "handleChangePassword"
  /\ last.body.ok
  /\ last.fail = 0
  /\ last.storedPassword = <<"p">>
  /\ last.body.currentPassword = <<"q">>
  /\ last.body.newPassword = last.body.confirmPassword
  /\ last.resp.body.success = FALSE
  /\ kv["admin_password"] = <<"p">>

\* C9 (logout idempotence): a logout whose delete does not throw answers
\* {success:true} whether or not a token was stored, leaves admin_session
\* absent and every other key as it was, and a second logout right after it
\* answers the same and leaves the store as the first did.
C9_LogoutIdempotent ==
  [][ LogoutStep =>
        /\ last'.resp.body = [success |-> TRUE]
        /\ kv'["admin_session"] = Null
        /\ \A k \in Keys \ {"admin_session"} : kv'[k] = kv[k]
        /\ HandleLogout(kv', 0).store = kv'
        /\ HandleLogout(kv', 0).resp = last'.resp ]_vars

C9_Witness ==
  /\ last.handler = "handleLogout"
  /\ last.fail = 0
  /\ issued \in Tokens
  /\ kv["admin_session"] = Null
  /\ kv["admin_password"] = <<"p">>
  /\ kv["categories"] # Null

\* the value of the first admin_session cookie of a Cookie header: all that
\* follows 'admin_session=' (Undefined when there is no such cookie)
SessionCookieValue(cookieHeader) ==
  LET parts == Split(cookieHeader, ";")
      found == FindSessionCookie([i \in 1..Len(parts) |-> Trim(parts[i])])
  IN IF found = Undefined THEN Undefined
     ELSE SubSeq(found, Len(SessionPrefix) + 1, Len(found))

\* C10 (checkSession): a request is authenticated if and only if it has a
\* Cookie header holding an admin_session cookie whose value is not empty and
\* equals, as a whole string, the stored admin_session token.
C10_ExactTokenMatch ==
  (last.handler = "adminPage" /\ last.fail = 0) =>
    ( last.resp.body.page = "admin console"
      <=> /\ Truthy(last.cookie)
          /\ SessionCookieValue(last.cookie) # Undefined
          /\ SessionCookieValue(last.cookie) # <<>>
          /\ SessionCookieValue(last.cookie) = kv["admin_session"] )

\* the handler the routing table names for a request
Dispatched(method, path) ==
  CASE method = "GET" /\ path = "/data" -> "handleGetData"
    [] method = "POST" /\ path = "/admin/auth" -> "handleAuth"
    [] method = "POST" /\ path = "/admin/save" -> "handleSaveData"
    [] method = "POST" /\ path = "/admin/change-password" -> "handleChangePassword"
    [] method = "POST" /\ path = "/admin/logout" -> "handleLogout"
    [] OTHER ->
         IF path \in { "/admin", "/admin/auth", "/admin/save", "/admin/change-password",
                       "/admin/logout", "/administrator" }
         THEN "adminPage" ELSE "homePage"

\* the response is a rendered HTML page with status 200
RenderedPage(resp) ==
  /\ resp.status = 200
  /\ DOMAIN resp.body = {"page"}
  /\ resp.headers["Content-Type"] = "text/html; charset=UTF-8"

\* C11 (router dispatch): every request is handled by the one handler the
\* routing table names for its method and path: GET /data by getData, POST to
\* the four admin actions by their handlers, any other request under /admin by
\* the session gate and admin page, everything else by the home page.  A
\* request handled by a page (a known path with the wrong verb, an unknown
\* path) changes no KV key and, its session read not throwing, is answered
\* with a rendered page of status 200.
C11_RouterDispatch ==
  [][ /\ last'.handler = Dispatched(last'.method, last'.path)
      /\ last'.handler = "homePage" =>
           /\ kv' = kv
           /\ RenderedPage(last'.resp)
      /\ last'.handler = "adminPage" =>
           /\ kv' = kv
           /\ last'.fail = 0 => RenderedPage(last'.resp) ]_vars

C11_Witness ==
  /\ last.handler = "adminPage"
  /\ last.method = "GET"
  /\ last.path = "/admin/logout"
  /\ last.fail = 0
  /\ RenderedPage(last.resp)
  /\ kv["admin_session"] \in Tokens
  /\ kv["categories"] # Null

C13_NoUncaughtException ==
  last.handler # "none" => last.resp # Uncaught

\* C14 (wrong-password login has no side effects): when a password is stored
\* and a login submits a string different from it, its KV read succeeding, the
\* answer is success:false with the incorrect-password message and without
\* Set-Cookie, and no key of the store changes, so that every token accepted
\* before is accepted after.
C14_WrongPasswordNoEffect ==
  [][ ( /\ last'.handler = "handleAuth"
        /\ last'.form.ok
        /\ IsString(last'.form.password)
        /\ last'.fail = 0
        /\ kv["admin_password"] # Null
        /\ last'.form.password # kv["admin_password"] )
      => /\ last'.resp.body = [success |-> FALSE, message |-> "incorrect password"]
         /\ "Set-Cookie" \notin DOMAIN last'.resp.headers
         /\ kv' = kv
         /\ \A t \in Tokens : Accepts(kv, t) => Accepts(kv', t) ]_vars

\* what the home page shows for the example categories and sites
ExamplePage == RenderCategories(DefaultCategories, DefaultSites)

\* C15 (data-loading failure fallback): whenever the home page's load of the
\* navigation data fails (the fetch of /data is rejected or its response is
\* not OK, or a KV read or a JSON decode of handleGetData fails), the page
\* shows the example categories and sites, not an empty state.
C15_FailureShowsExamples ==
  ( /\ home.outcome # "none"
    /\ home.outcome \in {"rejected", "not ok"} \/ home.failed )
  => /\ home.page = ExamplePage
     /\ home.page.view = "categories"

\* every site of sites has a category that categories lists
NoOrphans(categories, sites) ==
  \A i \in 1..Len(sites) : \E j \in 1..Len(categories) : sites[i].category = categories[j]

\* C16 (admin-client orphan freedom): removeCategory(i), confirmed, leaves in
\* the script's site list exactly the sites of another category than the one
\* removed, in their order; and, the lists loaded last having different
\* categories and no orphaned site, after every sequence of addCategory,
\* addSite, removeCategory and removeSite every site's category is in the
\* category list, in the script and in the body it sends to /admin/save.
C16_NoOrphanedSite ==
  /\ \A index \in 1..Len(admin.categories) :
       \E after \in { RemoveCategory(admin, index, TRUE) } :
         /\ \A i \in 1..Len(after.sites) :
              after.sites[i].category # admin.categories[index]
         /\ after.sites =
              SelectSeq(admin.sites, LAMBDA site : site.category # admin.categories[index])
         /\ Len(after.categories) = Len(admin.categories) - 1
  /\ admin.sound =>
       /\ NoOrphans(admin.categories, admin.sites)
       /\ NoOrphans(SaveBody(admin).categories.val, SaveBody(admin).sites.val)

C16_Witness ==
  /\ last.handler = "handleSaveData"
  /\ last.fail = 0
  /\ admin.sound
  /\ admin.categories = <<"B">>
  /\ Len(admin.sites) = 2
  /\ admin.sites[1].category = "B"
  /\ kv["categories"] = JSONStringifyCategories(Present(<<"B">>))
  /\ kv["sites"] = JSONStringifySites(Present(admin.sites))

\* C17 (password change success): whenever currentPassword equals what the
\* store holds under admin_password and newPassword equals confirmPassword, a
\* changePassword whose KV calls succeed stores newPassword as admin_password
\* and answers success:true, whatever string newPassword is, the empty string
\* and strings of fewer than six characters included.
C17_ChangeSucceeds ==
  ( /\ last.handler = "handleChangePassword"
    /\ last.body.ok
    /\ last.fail = 0
    /\ last.body.currentPassword = last.storedPassword
    /\ last.body.newPassword = last.body.confirmPassword
    /\ IsString(last.body.newPassword) )
  => /\ kv["admin_password"] = last.body.newPassword
     /\ last.resp.status = 200
     /\ last.resp.body = [success |-> TRUE, message |-> "password changed"]

C17_Witness ==
  /\ last.handler = "handleChangePassword"
  /\ last.body.ok
  /\ last.fail = 0
  /\ last.storedPassword = <<"p">>
  /\ last.body.currentPassword = <<"p">>
  /\ last.body.newPassword = <<>>
  /\ last.body.confirmPassword = <<>>
  /\ last.resp.body.success
  /\ kv["admin_password"] = <<>>

\* C18 (password change leaves the session alone): a changePassword, whether
\* it succeeds or fails, leaves admin_session as it was and sets no cookie;
\* every token that authenticated before the call authenticates after it.
C18_ChangeKeepsSession ==
  [][ last'.handler = "handleChangePassword" =>
        /\ kv'["admin_session"] = kv["admin_session"]
        /\ "Set-Cookie" \notin DOMAIN last'.resp.headers
        /\ \A t \in Tokens : Accepts(kv, t) => Accepts(kv', t) ]_vars

C18_Witness ==
  /\ last.handler = "handleChangePassword"
  /\ last.resp.body.success
  /\ last.storedPassword = <<"p">>
  /\ kv["admin_password"] = <<"q">>
  /\ issued = <<"t", "1">>
  /\ kv["admin_session"] = issued
  /\ Accepts(kv, issued)

\* C19 (headers of /data): every response to GET /data, the one built from
\* the stored data and the one of the catch branch alike, declares
\* Content-Type application/json and Cache-Control no-cache.
C19_DataHeaders ==
  last.handler = "handleGetData" =>
    /\ "Content-Type" \in DOMAIN last.resp.headers
    /\ last.resp.headers["Content-Type"] = "application/json"
    /\ "Cache-Control" \in DOMAIN last.resp.headers
    /\ last.resp.headers["Cache-Control"] = "no-cache"

\* request r has answered success:true
SaveDone(r) == inflight[r].pc = "done" /\ inflight[r].resp = SaveSucceeded

\* the store holds the categories of request c and the sites of request s
StoreHolds(c, s) ==
  /\ kv["categories"] = JSONStringifyCategories(inflight[c].body.categories)
  /\ kv["sites"] = JSONStringifySites(inflight[s].body.sites)

\* C20 (concurrent saves can tear): nothing in saveData holds a save back
\* while another is between its two puts: the put of categories, the put of
\* sites and the arrival of a request stay possible for one request wherever
\* the other stands; when both have answered success:true each key holds what
\* one of the two submitted, and the two keys need not come from the same
\* caller (the witness: the categories of B with the sites of A).
C20_SavesCanTear ==
  /\ \A r \in Requests : \A o \in Requests \ {r} :
       inflight[r].pc = "sites" =>
         /\ inflight[o].pc = "categories" => ENABLED SaveWritesCategories(o)
         /\ inflight[o].pc = "sites" => ENABLED SaveWritesSites(o)
         /\ inflight[o].pc \in {"idle", "done"} => ENABLED SaveArrives(o)
  /\ (SaveDone("A") /\ SaveDone("B")) =>
       \E c \in Requests, s \in Requests : StoreHolds(c, s)

C20_Witness ==
  /\ SaveDone("A")
  /\ SaveDone("B")
  /\ inflight["A"].body # inflight["B"].body
  /\ StoreHolds("B", "A")
  /\ ~StoreHolds("A", "A")
  /\ ~StoreHolds("B", "B")

\* request r has been answered success:true
LoginDone(r) == inflight[r].pc = "done" /\ inflight[r].resp.body.success

\* the other of the two requests
Other(r) == CHOOSE o \in Requests : o # r

\* C21 (concurrent logins, last write wins): when two logins have both been
\* answered success:true with different tokens, the stored admin_session is
\* the token whose put landed last, one of the two; the cookie of the caller
\* who got it authenticates and the cookie of the other caller does not.
C21_LastLoginWins ==
  ( /\ LoginDone("A")
    /\ LoginDone("B")
    /\ TokenSet(inflight["A"].resp) # TokenSet(inflight["B"].resp) )
  => /\ kv["admin_session"] = issued
     /\ \E r \in Requests :
          /\ TokenSet(inflight[r].resp) = issued
          /\ Accepts(kv, TokenSet(inflight[r].resp))
          /\ ~Accepts(kv, TokenSet(inflight[Other(r)].resp))

C21_Witness ==
  /\ LoginDone("A")
  /\ LoginDone("B")
  /\ inflight["A"].read = <<"p">>
  /\ inflight["B"].read = <<"p">>
  /\ TokenSet(inflight["A"].resp) = <<"t", "1">>
  /\ TokenSet(inflight["B"].resp) = <<"t", "2">>
  /\ kv["admin_session"] = <<"t", "1">>
  /\ ~Accepts(kv, <<"t", "2">>)

\* request r has been answered after it found no admin_password in the store
BootstrapEnded(r) == inflight[r].pc = "done" /\ inflight[r].read = Null

\* C27 (concurrent bootstrap): when two logins with different passwords have
\* both run on a store without admin_password, at most one of them was
\* answered success:true, and a caller answered success:true submitted the
\* password that is stored once both have completed.
C27_OneBootstrapWins ==
  ( /\ BootstrapEnded("A")
    /\ BootstrapEnded("B")
    /\ inflight["A"].form.password # inflight["B"].form.password )
  => /\ ~(LoginDone("A") /\ LoginDone("B"))
     /\ \A r \in Requests :
          LoginDone(r) => kv["admin_password"] = inflight[r].form.password

\* C22 (non-atomic save): saveData writes the categories key before the sites
\* key. Whatever the store holds and whatever is saved, when the write of
\* categories fails the store is unchanged, and when the write of sites fails
\* after it the answer is {success: false} with the save-failure message and
\* the store holds the new categories with the old sites; no failure leaves
\* new sites with the old categories.
C22_NonAtomicSave ==
  \A body \in SaveBodies :
    body.ok =>
      \E saved \in { HandleSaveData(kv, body, 0).store },
         first \in { HandleSaveData(kv, body, 1) },
         second \in { HandleSaveData(kv, body, 2) } :
        /\ first.threw /\ first.store = kv /\ first.resp = SaveFailed
        /\ second.threw
        /\ second.resp.body = [success |-> FALSE, message |-> "save failed"]
        /\ second.store = [kv EXCEPT !["categories"] = saved["categories"]]
        /\ \A r \in { first, second } :
             r.store["sites"] # kv["sites"] => r.store["categories"] = saved["categories"]

C22_Witness ==
  /\ last.handler = "handleSaveData"
  /\ last.fail = 2
  /\ last.resp = SaveFailed
  /\ JSONParse(kv["categories"]).ok
  /\ JSONParse(kv["categories"]).val = <<"B">>
  /\ JSONParse(kv["sites"]).ok
  /\ Len(JSONParse(kv["sites"]).val) = 1
  /\ JSONParse(kv["sites"]).val[1].category = "A"

\* C23 (no partial state on failed login): a login that is answered with the
\* generic server error has written neither admin_password nor admin_session.
C23_FailedLoginWritesNothing ==
  [][ (last'.handler = "handleAuth" /\ last'.resp = AuthServerError)
        => /\ kv'["admin_password"] = kv["admin_password"]
           /\ kv'["admin_session"] = kv["admin_session"] ]_vars

\* C24 (admin_password stays absent until the first login): a request other
\* than POST /admin/auth (changePassword with any body, saveData, logout,
\* getData, a page view) that finds admin_password absent leaves it absent.
C24_OnlyLoginSetsFirstPassword ==
  [][ (last'.handler # "handleAuth" /\ kv["admin_password"] = Null)
        => kv'["admin_password"] = Null ]_vars

\* C25 (data keys change only on save): a request handled by anything but
\* saveData (getData, login, changePassword, logout, a page render with its
\* checkSession) leaves the categories and sites keys as they were, and
\* getData, the admin page with its checkSession and the home page leave the
\* whole store as it was.
C25_DataChangeOnlyOnSave ==
  [][ /\ last'.handler # "handleSaveData"
        => /\ kv'["categories"] = kv["categories"]
           /\ kv'["sites"] = kv["sites"]
      /\ last'.handler \in {"handleGetData", "adminPage", "homePage"}
        => kv' = kv ]_vars

C25_Witness ==
  /\ last.handler = "adminPage"
  /\ last.fail = 0
  /\ last.cookie # Null
  /\ Accepts(kv, issued)
  /\ kv["categories"] # Null
  /\ kv["sites"] # Null

\* C26 (password stability): once admin_password is stored, it changes only in
\* a changePassword that is answered success:true; no login overwrites a
\* stored password.
C26_PasswordStability ==
  [][ (kv["admin_password"] # Null /\ kv'["admin_password"] # kv["admin_password"])
        => /\ last'.handler = "handleChangePassword"
           /\ last'.resp.body.success ]_vars

\* the (categories, sites) pairs that one save submitted together, and the
\* initial empty pair
SubmittedPairs ==
  { [categories |-> <<>>, sites |-> <<>>] } \cup
  { [categories |-> body.categories.val, sites |-> body.sites.val] :
      body \in { b \in SnapshotBodies : b.ok } }

\* C28 (snapshot-consistent read): every (categories, sites) pair that getData
\* returns is the initial empty pair or a pair that one saveData submitted
\* together, also when the read runs beside one save.
C28_SnapshotRead ==
  inflight[Reader].pc = "done" => inflight[Reader].resp.body \in SubmittedPairs

\* the POST request to path with a Cookie header and a body
PostTo(path, cookie, body) ==
  [method |-> "POST", path |-> path, cookie |-> cookie, body |-> body]

\* C29 (cookie independence of the mutating endpoints): from the same store,
\* the same POST /admin/change-password or POST /admin/logout request gives
\* the same response body and the same resulting store whatever its Cookie
\* header is (valid session, invalid session, none).
C29_CookieIndependence ==
  \A path \in {"/admin/change-password", "/admin/logout"} :
    \A body \in BodiesFor(path), fail \in 0..2, cookie \in CookieHeaders :
      \E with \in { HandleAdminRequest(kv, PostTo(path, cookie, body), Null, fail) },
         without \in { HandleAdminRequest(kv, PostTo(path, Null, body), Null, fail) } :
        /\ with.resp.body = without.resp.body
        /\ with.store = without.store

C29_Witness ==
  /\ last.handler = "handleChangePassword"
  /\ last.fail = 0
  /\ last.resp.body.success
  /\ kv["admin_session"] = <<"t", "1">>
  /\ last.cookie = CookieOf(<<"t", "2">>)
  /\ ~CheckSession(kv, last.cookie, 0).isAuthenticated
  /\ kv["admin_password"] = <<"q">>

====
